---- MODULE Spec2Model ----
(***************************************************************************)
(* Model of the doggy-door proximity/lock engine:                          *)
(*   src/src/main.py              DoggyDoorApp (lock controller,           *)
(*                                orchestrator, auto-lock timer, shutdown) *)
(*   src/src/airtag_detector.py   AirTagDetector (monitor loop)            *)
(*   src/src/homekit_controller.py HomeKitController / HomeKitSwitch       *)
(*                                                                         *)
(* The program is one asyncio event loop.  A task runs without             *)
(* interruption from the point it is resumed to its next suspension point. *)
(* The suspension points of the code are: the scan window                  *)
(* (scan_for_airtag), the monitor's interval sleep and the auto-lock       *)
(* timer's sleep.  An actuator call is an `await` of coroutines that       *)
(* never wait on a pending future (SetDoorLockedSuspends), so it does not  *)
(* return control to the event loop.                                       *)
(***************************************************************************)
EXTENDS Integers, Sequences, FiniteSets, TLC

\* ---------------------------------------------------------------- bounds
MaxTasks == 2        \* timer task objects alive at the same time
MaxLoops == 2        \* start_monitoring() invocations
MaxClock == 2        \* readings of datetime.now() that can be told apart
MaxLockCalls == 2    \* saturation of the per-episode lock-call counter
MaxRssiLoss == 100   \* weakest reading evaluated, -MaxRssiLoss dBm
MaxRssiGain == 20    \* strongest reading evaluated, dBm
MaxBatch == 2        \* advertisements delivered in one scan window

Slots == 1..MaxTasks
Loops == 1..MaxLoops

\* ------------------------------------------------------- program constants
\* Config.PROXIMITY_THRESHOLD_FEET (3.0 feet); distances are integers in
\* units of 1/100000 foot
proximity_threshold_feet == 300000

\* distances a scan window can report for its closest match: well inside
\* (RSSI -50), on the boundary, just outside (RSSI -59), far (10 feet)
Distances == {116409, 300000, 328084, 1000000}
NoResult == 0
ScanResults == {NoResult} \cup Distances

\* main.py:76 -- the orchestrator registers on_proximity_change
proximity_callback == TRUE

\* variant: the actuator call waits on a pending future (real async I/O)
SetDoorLockedSuspends_Yields == TRUE

\* homekit_controller.py:119-171 -- set_door_locked awaits only coroutines
\* that complete without suspending (blocking requests.put, or
\* HomeKitSwitch.set_lock_state which has no await)
SetDoorLockedSuspends == FALSE

VARIABLES
    door_locked,        \* DoggyDoorApp.door_locked
    last_unlock_time,   \* DoggyDoorApp.last_unlock_time (0 = None)
    auto_lock_task,     \* DoggyDoorApp.auto_lock_task (0 = None, else a slot)
    is_running,         \* DoggyDoorApp.is_running
    tasks,              \* the auto_lock_timer task objects
    is_scanning,        \* AirTagDetector.is_scanning
    loops,              \* the start_monitoring() coroutines
    sd_pc,              \* position of DoggyDoorApp.shutdown()
    is_locked,          \* HomeKitSwitch.is_locked (state set on the actuator)
    driver_stopped,     \* HomeKitController.shutdown() has run
    sd_log,             \* history: the steps shutdown() has performed
    now,                \* datetime.now()
    last_call,          \* history: the most recent completed actuator call
    lock_calls,         \* history: lock calls issued since the last
                        \*          successful unlock (saturating)
    lock_failed,        \* history: some set_door_locked(True) has raised
    last_op,            \* history: how the last unlock_door / lock_door ended
    api_pc,             \* position of a direct caller of unlock_door / lock_door
    query,              \* history: the last get_door_state() and its outcome
    fail_safe_mode,     \* Config.FAIL_SAFE_MODE
    known_airtag_addresses,  \* AirTagDetector.known_airtag_addresses
    scan,               \* one scan_for_airtag() window: the samples delivered
                        \* to device_found and its local variables
    accepted,           \* history: addresses of the samples is_any_airtag
                        \* has returned True for
    config,             \* Config: the settings Config.validate examines
    startup,            \* position and outcome of DoggyDoorApp.initialize()
    dist                \* history: the last evaluations of
                        \* rssi_to_distance_feet

vars == <<door_locked, last_unlock_time, auto_lock_task, is_running, tasks,
          is_scanning, loops, sd_pc, is_locked, driver_stopped, sd_log,
          now, last_call, lock_calls, lock_failed, last_op, api_pc, query, fail_safe_mode,
          known_airtag_addresses, scan, accepted, config, startup, dist>>

ctl_vars == <<door_locked, last_unlock_time, auto_lock_task, tasks>>
mon_vars == <<is_scanning, loops>>
sd_vars == <<sd_pc, driver_stopped, sd_log>>
act_vars == <<is_locked, last_call, lock_calls, lock_failed, last_op>>
api_vars == <<api_pc, query, fail_safe_mode>>
scan_vars == <<known_airtag_addresses, scan, accepted>>
env_vars == <<config, startup, dist>>

FreeTask == [st |-> "free", cancel |-> FALSE]
DoneTask == [st |-> "done", cancel |-> FALSE]
NoCall == [by |-> <<"none">>, locked |-> TRUE, ok |-> TRUE]

\* Config with the default settings of config.py; PROXIMITY_THRESHOLD_FEET
\* in units of 1/100000 foot, an unset string is ""
DefaultConfig == [PROXIMITY_THRESHOLD_FEET |-> proximity_threshold_feet,
                  SCAN_INTERVAL_SECONDS |-> 2,
                  HOMEKIT_API_URL |-> "",
                  HOMEKIT_BRIDGE_PIN |-> "123-45-678"]

\* the settings with HOMEKIT_API_URL set: the controller uses the HTTP API
ApiConfig == [DefaultConfig EXCEPT !.HOMEKIT_API_URL = "http://hub.local"]

\* initialize() is not part of the run: its effects are assumed
NoStartup == [pc |-> "none", error |-> "none"]

\* no distance has been evaluated
NoDist == [n |-> 0, r1 |-> 0, d1 |-> 0, r2 |-> 0, d2 |-> 0]

NoOp == [op |-> "none", ok |-> TRUE, raised |-> FALSE]
NoQuery == [seq |-> 0, ok |-> TRUE, result |-> "none"]

\* device.address of the advertisements the radio delivers
Addresses == {"4C:00:00:00:00:01", "4C:00:00:00:00:02"}

\* float('inf'), above every distance a sample of Rssis can yield
Inf == 2000000000

\* scan_for_airtag() has no result: None
None == <<>>

\* the local variables of scan_for_airtag() before the scanner is started:
\* no sample delivered, closest_airtag = None (0), closest_distance = inf
NewScan == [st |-> "open", seen |-> <<>>, last |-> <<>>,
            closest_airtag |-> 0, closest_distance |-> Inf,
            result |-> None, raised |-> FALSE, is_close |-> FALSE]

Min(S) == CHOOSE x \in S : \A y \in S : x <= y

\* ------------------------------------------------------------ event loop
\* A process holds the event loop while it is between two suspension
\* points.  Inside an actuator call it holds it unless the call suspends.
HoldsLoop(p) ==
    \/ /\ p[1] = "sd"
       /\ \/ sd_pc \in {"stop", "cancel", "lock", "release"}
          \/ sd_pc = "locking" /\ ~SetDoorLockedSuspends
    \/ /\ p[1] = "mon"
       /\ loops[p[2]].pc \in {"unlocking", "locking"}
       /\ ~SetDoorLockedSuspends
    \/ /\ p[1] = "timer"
       /\ tasks[p[2]].st = "locking"
       /\ ~SetDoorLockedSuspends
    \/ /\ p[1] = "api"
       /\ api_pc \in {"unlocking", "locking"}
       /\ ~SetDoorLockedSuspends

Procs == {<<"sd">>, <<"api">>} \cup {<<"mon", l>> : l \in Loops}
                               \cup {<<"timer", t>> : t \in Slots}

\* p may take a step: no other task is in the middle of a run
CanRun(p) == \A q \in Procs \ {p} : ~HoldsLoop(q)

\* actuator set calls that have been issued and have not returned
InFlight ==
    {<<"sd">> : x \in IF sd_pc = "locking" THEN {1} ELSE {}}
    \cup {<<"api">> : x \in IF api_pc \in {"unlocking", "locking"} THEN {1} ELSE {}}
    \cup {<<"mon", l>> : l \in {k \in Loops : loops[k].pc \in {"unlocking", "locking"}}}
    \cup {<<"timer", t>> : t \in {k \in Slots : tasks[k].st = "locking"}}

\* ------------------------------------------------------------ timer tasks
\* variant: the cancellation request is lost
Cancel_Lost(ts, t) == ts

\* Task.cancel(): no effect on a finished task, otherwise a CancelledError
\* is delivered when the task next runs
Cancel(ts, t) ==
    IF t = 0 \/ ts[t].st \in {"free", "done"}
    THEN ts
    ELSE [ts EXCEPT ![t].cancel = TRUE]

\* a finished task object that the application no longer references is gone
Gc(ts, ref) ==
    [t \in Slots |-> IF ts[t].st = "done" /\ t # ref THEN FreeTask ELSE ts[t]]

\* a timer that is armed and has neither fired nor been cancelled
Pending(t) == tasks[t].st \in {"created", "sleeping", "ready"} /\ ~tasks[t].cancel

PendingTimers == {t \in Slots : Pending(t)}

\* ------------------------------------------------------------- actuator
\* HomeKitController.use_api: bool(Config.HOMEKIT_API_URL)
use_api == config.HOMEKIT_API_URL # ""

\* HomeKitController.set_door_locked(locked), where ok says that the call
\* returns and ~ok that it raises (the error is re-raised to the caller).
\* Bridge mode: HomeKitSwitch.set_lock_state does nothing when the switch
\* already holds `locked`; otherwise it assigns is_locked and then calls
\* set_value, so the switch holds `locked` also when set_value raises.
\* API mode: is_locked is the state of the remote switch, which a request
\* that raises leaves as it was.
SetDoorLocked(by, locked, ok) ==
    /\ (~ok /\ ~use_api) => is_locked # locked
    /\ is_locked' = IF ok \/ ~use_api THEN locked ELSE is_locked
    /\ last_call' = [by |-> by, locked |-> locked, ok |-> ok]
    /\ lock_failed' = (lock_failed \/ (locked /\ ~ok))

CountLock(n) == IF n < MaxLockCalls THEN n + 1 ELSE n

\* ------------------------------------------------------- lock controller
\* variant: the state is updated and the timer armed whatever the outcome
\* of the actuator call
UnlockDoorReturn_Optimistic(by, ok) ==
    /\ SetDoorLocked(by, FALSE, ok)
    /\ last_op' = [op |-> "unlock_door", ok |-> ok, raised |-> FALSE]
    /\ LET ts1 == Gc(Cancel(tasks, auto_lock_task), 0)
           new == Min({t \in Slots : ts1[t].st = "free"})
       IN  /\ \E t \in Slots : ts1[t].st = "free"
           /\ door_locked' = FALSE
           /\ last_unlock_time' = now
           /\ tasks' = [ts1 EXCEPT ![new] = [st |-> "created", cancel |-> FALSE]]
           /\ auto_lock_task' = new
           /\ lock_calls' = 0

\* DoggyDoorApp.unlock_door, from the return of the actuator call
UnlockDoorReturn(by, ok) ==
    /\ SetDoorLocked(by, FALSE, ok)
    /\ last_op' = [op |-> "unlock_door", ok |-> ok, raised |-> FALSE]
    /\ IF ok
       THEN LET ts1 == Gc(Cancel(tasks, auto_lock_task), 0)
                new == Min({t \in Slots : ts1[t].st = "free"})
            IN  /\ \E t \in Slots : ts1[t].st = "free"
                /\ door_locked' = FALSE
                /\ last_unlock_time' = now
                /\ tasks' = [ts1 EXCEPT ![new] = [st |-> "created", cancel |-> FALSE]]
                /\ auto_lock_task' = new
                /\ lock_calls' = 0
       ELSE UNCHANGED <<door_locked, last_unlock_time, tasks, auto_lock_task,
                        lock_calls>>

\* variant: `self.door_locked = True` is missing
LockDoorReturn_NoStateUpdate(by, ok, self) ==
    /\ SetDoorLocked(by, TRUE, ok)
    /\ last_op' = [op |-> "lock_door", ok |-> ok, raised |-> FALSE]
    /\ lock_calls' = CountLock(lock_calls)
    /\ UNCHANGED <<last_unlock_time, door_locked>>
    /\ LET ended(ts) == IF self = 0 THEN ts ELSE [ts EXCEPT ![self] = DoneTask]
       IN IF ok
          THEN /\ tasks' = Gc(ended(Cancel(tasks, auto_lock_task)), 0)
               /\ auto_lock_task' = 0
          ELSE /\ tasks' = Gc(ended(tasks), auto_lock_task)
               /\ UNCHANGED auto_lock_task

\* variant: the timer is not cancelled by a successful lock
LockDoorReturn_NoCancel(by, ok, self) ==
    /\ SetDoorLocked(by, TRUE, ok)
    /\ last_op' = [op |-> "lock_door", ok |-> ok, raised |-> FALSE]
    /\ lock_calls' = CountLock(lock_calls)
    /\ UNCHANGED last_unlock_time
    /\ LET ended(ts) == IF self = 0 THEN ts ELSE [ts EXCEPT ![self] = DoneTask]
       IN IF ok
          THEN /\ door_locked' = TRUE
               /\ tasks' = Gc(ended(tasks), auto_lock_task)
               /\ UNCHANGED auto_lock_task
          ELSE /\ tasks' = Gc(ended(tasks), auto_lock_task)
               /\ UNCHANGED <<door_locked, auto_lock_task>>

\* variant: the timer is cancelled before the outcome of the call is known
LockDoorReturn_CancelFirst(by, ok, self) ==
    /\ SetDoorLocked(by, TRUE, ok)
    /\ last_op' = [op |-> "lock_door", ok |-> ok, raised |-> FALSE]
    /\ lock_calls' = CountLock(lock_calls)
    /\ UNCHANGED last_unlock_time
    /\ LET ended(ts) == IF self = 0 THEN ts ELSE [ts EXCEPT ![self] = DoneTask]
       IN /\ tasks' = Gc(ended(Cancel(tasks, auto_lock_task)), 0)
          /\ auto_lock_task' = 0
          /\ door_locked' = IF ok THEN TRUE ELSE door_locked

\* DoggyDoorApp.lock_door, from the return of the actuator call; `self` is
\* the timer slot when the timer task itself is the caller (0 otherwise):
\* that task ends when lock_door returns
LockDoorReturn(by, ok, self) ==
    /\ SetDoorLocked(by, TRUE, ok)
    /\ last_op' = [op |-> "lock_door", ok |-> ok, raised |-> FALSE]
    /\ lock_calls' = CountLock(lock_calls)
    /\ UNCHANGED last_unlock_time
    /\ LET ended(ts) == IF self = 0 THEN ts ELSE [ts EXCEPT ![self] = DoneTask]
       IN IF ok
          THEN /\ door_locked' = TRUE
               /\ tasks' = Gc(ended(Cancel(tasks, auto_lock_task)), 0)
               /\ auto_lock_task' = 0
          ELSE /\ tasks' = Gc(ended(tasks), auto_lock_task)
               /\ UNCHANGED <<door_locked, auto_lock_task>>

TypeOK ==
    /\ door_locked \in BOOLEAN
    /\ last_unlock_time \in 0..MaxClock
    /\ auto_lock_task \in 0..MaxTasks
    /\ is_running \in BOOLEAN
    /\ is_scanning \in BOOLEAN
    /\ is_locked \in BOOLEAN
    /\ lock_failed \in BOOLEAN
    /\ driver_stopped \in BOOLEAN
    /\ now \in 1..MaxClock
    /\ lock_calls \in 0..MaxLockCalls
    /\ api_pc \in {"idle", "unlocking", "locking"}
    /\ fail_safe_mode \in BOOLEAN
    /\ known_airtag_addresses \in SUBSET Addresses
    /\ accepted \in SUBSET Addresses
    /\ scan.st \in {"open", "returned"}
    /\ Len(scan.seen) <= MaxBatch
    /\ scan.closest_airtag \in 0..Len(scan.seen)

\* The application object after __init__ with its collaborators in place
\* (homekit_controller initialised and commanded to locked, airtag_detector
\* constructed with on_proximity_change registered), before run().
Init ==
    /\ door_locked = TRUE
    /\ last_unlock_time = 0
    /\ auto_lock_task = 0
    /\ is_running = FALSE
    /\ tasks = [t \in Slots |-> FreeTask]
    /\ is_scanning = FALSE
    /\ loops = [l \in Loops |-> [pc |-> "idle", last |-> "None",
                                 reported |-> "None", is_close |-> "None",
                                 fired |-> 0, scan_raised |-> FALSE,
                                 cb_raised |-> FALSE, cb_raised_before |-> FALSE]]
    /\ sd_pc = "idle"
    /\ is_locked = TRUE
    /\ driver_stopped = FALSE
    /\ sd_log = <<>>
    /\ now = 1
    /\ last_call = NoCall
    /\ lock_calls = 0
    /\ lock_failed = FALSE
    /\ last_op = NoOp
    /\ api_pc = "idle"
    /\ query = NoQuery
    /\ fail_safe_mode \in BOOLEAN
    /\ known_airtag_addresses = {}
    /\ scan = NewScan
    /\ accepted = {}
    /\ config \in {DefaultConfig, ApiConfig}
    /\ startup = NoStartup
    /\ dist = NoDist

\* ------------------------------------------------------- HomeKit clients
\* HomeKitSwitch.set_switch(value), the setter callback of the On
\* characteristic: a HomeKit client toggles the switch of the bridge.  The
\* switch exists once the controller is initialized in bridge mode; the
\* application is not told.
SetSwitch(value) ==
    /\ ~use_api
    /\ startup.pc \in {"none", "controller", "locked"}
    /\ CanRun(<<"homekit">>)
    /\ is_locked' = value
    /\ UNCHANGED <<ctl_vars, is_running, mon_vars, sd_vars, last_call,
                   lock_calls, lock_failed, last_op, now>>
    /\ UNCHANGED <<api_vars, scan_vars, env_vars>>

\* ------------------------------------------------------------ orchestrator
\* DoggyDoorApp.run: is_running is set and the monitoring task is created
Run ==
    /\ ~is_running
    /\ sd_pc = "idle"
    /\ loops[1].pc = "idle"
    /\ CanRun(<<"run">>)
    /\ is_running' = TRUE
    /\ loops' = [loops EXCEPT ![1].pc = "created"]
    /\ UNCHANGED <<ctl_vars, is_scanning, sd_vars, act_vars, now>>
    /\ UNCHANGED <<api_vars, scan_vars, env_vars>>

\* variant: the current lock state is not consulted
OnProximityChange_IgnoresState(is_close, locked) ==
    IF is_close THEN "unlock" ELSE "lock"

\* DoggyDoorApp.on_proximity_change: which controller operation it calls
OnProximityChange(is_close, locked) ==
    IF is_close /\ locked THEN "unlock"
    ELSE IF ~is_close /\ ~locked THEN "lock"
    ELSE "none"

\* --------------------------------------------------------------- monitor
BoolStr(b) == IF b THEN "True" ELSE "False"

\* AirTagDetector.is_within_proximity
is_within_proximity(distance_feet) == distance_feet <= proximity_threshold_feet

\* variant: the observer is invoked on every evaluated match
NotifyOnResult_Always(last, is_close) == TRUE

\* start_monitoring, a match was found: `last_proximity_state != is_close`
NotifyOnResult(last, is_close) == last # BoolStr(is_close)

\* variant: `if last_proximity_state:` (None treated like False)
NotifyOnNoResult_Truthy(last) == last = "True"

\* start_monitoring, no match: `last_proximity_state is not False`
NotifyOnNoResult(last) == last # "False"

\* the value of last_proximity_state at the end of a cycle
NewLast(last, found, is_close) ==
    IF found THEN BoolStr(is_close)
    ELSE IF NotifyOnNoResult(last) THEN "False" ELSE last

\* variant: start_monitoring does not test is_scanning
StartMonitoring_NoGuard(l) ==
    /\ loops[l].pc = "created"
    /\ CanRun(<<"mon", l>>)
    /\ is_scanning' = TRUE
    /\ loops' = [loops EXCEPT ![l].pc = "scan", ![l].last = "None"]
    /\ UNCHANGED <<ctl_vars, is_running, sd_vars, act_vars, now>>
    /\ UNCHANGED <<api_vars, scan_vars, env_vars>>

\* first step of the monitoring task: start_monitoring up to the first
\* scan window
StartMonitoring(l) ==
    /\ loops[l].pc = "created"
    /\ CanRun(<<"mon", l>>)
    /\ IF is_scanning
       THEN /\ loops' = [loops EXCEPT ![l].pc = "returned"]
            /\ UNCHANGED is_scanning
       ELSE /\ is_scanning' = TRUE
            /\ loops' = [loops EXCEPT ![l].pc = "scan", ![l].last = "None"]
    /\ UNCHANGED <<ctl_vars, is_running, sd_vars, act_vars, now>>
    /\ UNCHANGED <<api_vars, scan_vars, env_vars>>

\* the scan window ends with result res: the result is evaluated and the
\* observer is invoked on a transition; the task runs on to the actuator
\* call of unlock_door / lock_door, or to the interval sleep.
\* scan_raised: the scanner raised and scan_for_airtag returned None from
\* its except block.  cb_raises: the observer raises instead of acting; the
\* except block around the callback logs it and the cycle goes on.
ScanEnd(l, res, scan_raised, cb_raises) ==
    LET found == res # NoResult
        is_close == found /\ is_within_proximity(res)
        last == loops[l].last
        notify == /\ proximity_callback
                  /\ IF found THEN NotifyOnResult(last, is_close)
                              ELSE NotifyOnNoResult(last)
        act == IF notify /\ ~cb_raises
               THEN OnProximityChange(is_close, door_locked)
               ELSE "none"
    IN  /\ loops[l].pc = "scan"
        /\ scan_raised => res = NoResult
        /\ cb_raises => notify
        /\ CanRun(<<"mon", l>>)
        \* a task object is available for the timer that unlock_door creates
        \* (finished and cancelled tasks leave the event loop before the
        \* monitor's next step; MaxTasks bounds the ones still around)
        /\ act = "unlock" =>
              \E t \in Slots : Gc(Cancel(tasks, auto_lock_task), 0)[t].st = "free"
        /\ loops' = [loops EXCEPT ![l] =
              [pc |-> CASE act = "unlock" -> "unlocking"
                        [] act = "lock" -> "locking"
                        [] OTHER -> "wait",
               last |-> IF act = "none" THEN NewLast(last, found, is_close)
                                        ELSE last,
               reported |-> IF notify THEN BoolStr(is_close) ELSE @.reported,
               is_close |-> BoolStr(is_close),
               fired |-> IF notify THEN 1 ELSE 0,
               scan_raised |-> scan_raised,
               cb_raised |-> cb_raises,
               cb_raised_before |-> loops[l].cb_raised]]
        /\ UNCHANGED <<ctl_vars, is_running, is_scanning, sd_vars, act_vars, now>>
        /\ UNCHANGED <<api_vars, scan_vars, env_vars>>

\* a scan window that ends normally, with an observer that returns
ScanComplete(l, res) == ScanEnd(l, res, FALSE, FALSE)

\* variant: the scanner's exception leaves scan_for_airtag and ends the
\* monitoring loop through its outer handler
ScanRaises_Propagates(l) ==
    /\ loops[l].pc = "scan"
    /\ CanRun(<<"mon", l>>)
    /\ loops' = [loops EXCEPT ![l].pc = "exited", ![l].scan_raised = TRUE]
    /\ is_scanning' = FALSE
    /\ UNCHANGED <<ctl_vars, is_running, sd_vars, act_vars, now>>
    /\ UNCHANGED <<api_vars, scan_vars, env_vars>>

\* the scanner raises during the window
ScanRaises(l) == ScanEnd(l, NoResult, TRUE, FALSE)

\* variant: the observer's exception ends the monitoring loop through its
\* outer handler
ObserverRaises_Propagates(l, res) ==
    /\ loops[l].pc = "scan"
    /\ CanRun(<<"mon", l>>)
    /\ loops' = [loops EXCEPT ![l].pc = "exited", ![l].cb_raised = TRUE,
                              ![l].fired = 1]
    /\ is_scanning' = FALSE
    /\ UNCHANGED <<ctl_vars, is_running, sd_vars, act_vars, now>>
    /\ UNCHANGED <<api_vars, scan_vars, env_vars>>

\* the scan window ends with result res and the observer, invoked on the
\* transition, raises
ObserverRaises(l, res) == ScanEnd(l, res, FALSE, TRUE)

\* the actuator call made for the observer returns (ok) or raises (~ok);
\* unlock_door / lock_door finish, the observer returns and the monitor
\* records the proximity and starts its interval sleep
MonCallReturn(l, ok) ==
    /\ loops[l].pc \in {"unlocking", "locking"}
    /\ CanRun(<<"mon", l>>)
    /\ IF loops[l].pc = "unlocking"
       THEN UnlockDoorReturn(<<"mon", l>>, ok)
       ELSE LockDoorReturn(<<"mon", l>>, ok, 0)
    /\ loops' = [loops EXCEPT ![l].pc = "wait",
                              ![l].last = NewLast(@, TRUE, loops[l].pc = "unlocking")]
    /\ UNCHANGED <<is_running, is_scanning, sd_vars, now>>
    /\ UNCHANGED <<api_vars, scan_vars, env_vars>>

\* the interval sleep ends: `while self.is_scanning`, and the finally block
WaitComplete(l) ==
    /\ loops[l].pc = "wait"
    /\ CanRun(<<"mon", l>>)
    /\ IF is_scanning
       THEN /\ loops' = [loops EXCEPT ![l].pc = "scan"]
            /\ UNCHANGED is_scanning
       ELSE /\ loops' = [loops EXCEPT ![l].pc = "exited"]
            /\ is_scanning' = FALSE
    /\ UNCHANGED <<ctl_vars, is_running, sd_vars, act_vars, now>>
    /\ UNCHANGED <<api_vars, scan_vars, env_vars>>

\* ------------------------------------------------------- auto_lock_timer
\* first step of the timer task: up to `await asyncio.sleep(timeout)`
TimerStart(t) ==
    /\ tasks[t].st = "created"
    /\ ~tasks[t].cancel
    /\ CanRun(<<"timer", t>>)
    /\ tasks' = [tasks EXCEPT ![t].st = "sleeping"]
    /\ UNCHANGED <<door_locked, last_unlock_time, auto_lock_task, is_running,
                   mon_vars, sd_vars, act_vars, now>>
    /\ UNCHANGED <<api_vars, scan_vars, env_vars>>

\* the timeout elapses: the task is scheduled to resume
TimerElapse(t) ==
    /\ tasks[t].st = "sleeping"
    /\ ~tasks[t].cancel
    /\ tasks' = [tasks EXCEPT ![t].st = "ready"]
    /\ UNCHANGED <<door_locked, last_unlock_time, auto_lock_task, is_running,
                   mon_vars, sd_vars, act_vars, now>>
    /\ UNCHANGED <<api_vars, scan_vars, env_vars>>

\* a cancelled task runs next: CancelledError is raised in it (before its
\* first step, or at the sleep, also when the sleep has already elapsed)
TimerCancelled(t) ==
    /\ tasks[t].st \in {"created", "sleeping", "ready"}
    /\ tasks[t].cancel
    /\ CanRun(<<"timer", t>>)
    /\ tasks' = Gc([tasks EXCEPT ![t] = DoneTask], auto_lock_task)
    /\ UNCHANGED <<door_locked, last_unlock_time, auto_lock_task, is_running,
                   mon_vars, sd_vars, act_vars, now>>
    /\ UNCHANGED <<api_vars, scan_vars, env_vars>>

\* the task resumes after the sleep: `if not self.door_locked: lock_door()`
TimerFire(t) ==
    /\ tasks[t].st = "ready"
    /\ ~tasks[t].cancel
    /\ CanRun(<<"timer", t>>)
    /\ IF ~door_locked
       THEN tasks' = [tasks EXCEPT ![t].st = "locking"]
       ELSE tasks' = Gc([tasks EXCEPT ![t] = DoneTask], auto_lock_task)
    /\ UNCHANGED <<door_locked, last_unlock_time, auto_lock_task, is_running,
                   mon_vars, sd_vars, act_vars, now>>
    /\ UNCHANGED <<api_vars, scan_vars, env_vars>>

\* the actuator call made by the timer's lock_door returns or raises
TimerCallReturn(t, ok) ==
    /\ tasks[t].st = "locking"
    /\ CanRun(<<"timer", t>>)
    /\ LockDoorReturn(<<"timer", t>>, ok, t)
    /\ UNCHANGED <<is_running, mon_vars, sd_vars, now>>
    /\ UNCHANGED <<api_vars, scan_vars, env_vars>>

\* -------------------------------------------------------------- shutdown
\* shutdown() is entered (signal handler task, or run()'s finally);
\* `if not self.is_running: return`
ShutdownBegin ==
    /\ sd_pc = "idle"
    /\ is_running
    /\ CanRun(<<"sd">>)
    /\ is_running' = FALSE
    /\ sd_pc' = "stop"
    /\ UNCHANGED <<ctl_vars, mon_vars, driver_stopped, sd_log, act_vars, now>>
    /\ UNCHANGED <<api_vars, scan_vars, env_vars>>

\* self.airtag_detector.stop_monitoring()
ShutdownStopMonitor ==
    /\ sd_pc = "stop"
    /\ is_scanning' = FALSE
    /\ sd_pc' = "cancel"
    /\ sd_log' = Append(sd_log, "stop_monitor")
    /\ UNCHANGED <<ctl_vars, is_running, loops, driver_stopped, act_vars, now>>
    /\ UNCHANGED <<api_vars, scan_vars, env_vars>>

\* `if self.auto_lock_task: self.auto_lock_task.cancel()`
ShutdownCancelTimer ==
    /\ sd_pc = "cancel"
    /\ tasks' = Cancel(tasks, auto_lock_task)
    /\ sd_pc' = "lock"
    /\ sd_log' = Append(sd_log, "cancel_timer")
    /\ UNCHANGED <<door_locked, last_unlock_time, auto_lock_task, is_running,
                   mon_vars, driver_stopped, act_vars, now>>
    /\ UNCHANGED <<api_vars, scan_vars, env_vars>>

\* `if self.homekit_controller and not self.door_locked:` the lock call is
\* issued
ShutdownLock ==
    /\ sd_pc = "lock"
    /\ IF ~door_locked
       THEN /\ sd_pc' = "locking"
            /\ sd_log' = Append(sd_log, "lock_call")
       ELSE /\ sd_pc' = "release"
            /\ UNCHANGED sd_log
    /\ UNCHANGED <<ctl_vars, is_running, mon_vars, driver_stopped, act_vars, now>>
    /\ UNCHANGED <<api_vars, scan_vars, env_vars>>

\* variant: the error of the lock call ends shutdown
ShutdownCallReturn_Propagates(ok) ==
    /\ sd_pc = "locking"
    /\ CanRun(<<"sd">>)
    /\ SetDoorLocked(<<"sd">>, TRUE, ok)
    /\ UNCHANGED last_op
    /\ lock_calls' = CountLock(lock_calls)
    /\ sd_pc' = IF ok THEN "release" ELSE "done"
    /\ sd_log' = Append(sd_log, IF ok THEN "lock_ok" ELSE "lock_failed")
    /\ UNCHANGED <<ctl_vars, is_running, mon_vars, driver_stopped, now>>
    /\ UNCHANGED <<api_vars, scan_vars, env_vars>>

\* the lock call of shutdown returns, or raises and the error is logged
ShutdownCallReturn(ok) ==
    /\ sd_pc = "locking"
    /\ CanRun(<<"sd">>)
    /\ SetDoorLocked(<<"sd">>, TRUE, ok)
    /\ UNCHANGED last_op
    /\ lock_calls' = CountLock(lock_calls)
    /\ sd_pc' = "release"
    /\ sd_log' = Append(sd_log, IF ok THEN "lock_ok" ELSE "lock_failed")
    /\ UNCHANGED <<ctl_vars, is_running, mon_vars, driver_stopped, now>>
    /\ UNCHANGED <<api_vars, scan_vars, env_vars>>

\* `await self.homekit_controller.shutdown()`
ShutdownRelease ==
    /\ sd_pc = "release"
    /\ driver_stopped' = TRUE
    /\ sd_pc' = "done"
    /\ sd_log' = Append(sd_log, "release")
    /\ UNCHANGED <<ctl_vars, is_running, mon_vars, act_vars, now>>
    /\ UNCHANGED <<api_vars, scan_vars, env_vars>>

\* ------------------------------------------------------------------ time
Tick ==
    /\ now < MaxClock
    /\ now' = now + 1
    /\ UNCHANGED <<ctl_vars, is_running, mon_vars, sd_vars, act_vars>>
    /\ UNCHANGED <<api_vars, scan_vars, env_vars>>

Next ==
    \/ Run
    \/ \E l \in Loops : StartMonitoring(l)
    \/ \E l \in Loops, res \in ScanResults : ScanComplete(l, res)
    \/ \E l \in Loops : ScanRaises(l)
    \/ \E l \in Loops, ok \in BOOLEAN : MonCallReturn(l, ok)
    \/ \E l \in Loops : WaitComplete(l)
    \/ \E t \in Slots : TimerStart(t)
    \/ \E t \in Slots : TimerElapse(t)
    \/ \E t \in Slots : TimerCancelled(t)
    \/ \E t \in Slots : TimerFire(t)
    \/ \E t \in Slots, ok \in BOOLEAN : TimerCallReturn(t, ok)
    \/ ShutdownBegin
    \/ ShutdownStopMonitor
    \/ ShutdownCancelTimer
    \/ ShutdownLock
    \/ \E ok \in BOOLEAN : ShutdownCallReturn(ok)
    \/ ShutdownRelease
    \/ \E value \in BOOLEAN : SetSwitch(value)
    \/ Tick

Spec == Init /\ [][Next]_vars

\* the same program with an observer that may raise when it is invoked
NextObserver ==
    \/ Next
    \/ \E l \in Loops, res \in ScanResults : ObserverRaises(l, res)

SpecObserver == Init /\ [][NextObserver]_vars

\* ------------------------------------------------- the public operations
\* unlock_door() called directly (not through on_proximity_change): it runs
\* to its actuator call; there is no test of door_locked in unlock_door
ApiUnlockDoor ==
    /\ api_pc = "idle"
    /\ CanRun(<<"api">>)
    /\ \E t \in Slots : Gc(Cancel(tasks, auto_lock_task), 0)[t].st = "free"
    /\ api_pc' = "unlocking"
    /\ UNCHANGED <<ctl_vars, is_running, mon_vars, sd_vars, act_vars, now,
                   query, fail_safe_mode, scan_vars, env_vars>>

\* lock_door() called directly: it runs to its actuator call; there is no
\* test of door_locked in lock_door
ApiLockDoor ==
    /\ api_pc = "idle"
    /\ CanRun(<<"api">>)
    /\ api_pc' = "locking"
    /\ UNCHANGED <<ctl_vars, is_running, mon_vars, sd_vars, act_vars, now,
                   query, fail_safe_mode, scan_vars, env_vars>>

\* the actuator call of the direct caller returns or raises
ApiCallReturn(ok) ==
    /\ api_pc \in {"unlocking", "locking"}
    /\ CanRun(<<"api">>)
    /\ IF api_pc = "unlocking"
       THEN UnlockDoorReturn(<<"api">>, ok)
       ELSE LockDoorReturn(<<"api">>, ok, 0)
    /\ api_pc' = "idle"
    /\ UNCHANGED <<is_running, mon_vars, sd_vars, now, query, fail_safe_mode,
                   scan_vars, env_vars>>

\* variant: an unreadable state is reported as locked whatever the
\* fail-safe flag
GetDoorState_IgnoresFlag(ok) ==
    /\ api_pc = "idle"
    /\ CanRun(<<"api">>)
    /\ query' = [seq |-> 1 - query.seq, ok |-> ok,
                 result |-> IF ok THEN BoolStr(is_locked) ELSE "True"]
    /\ UNCHANGED <<ctl_vars, is_running, mon_vars, sd_vars, act_vars, now,
                   api_pc, fail_safe_mode, scan_vars, env_vars>>

\* HomeKitController.get_door_state: the read of the switch succeeds (ok) or
\* raises; on a raise True is returned in fail-safe mode, else it is re-raised
GetDoorState(ok) ==
    /\ api_pc = "idle"
    /\ CanRun(<<"api">>)
    /\ query' = [seq |-> 1 - query.seq, ok |-> ok,
                 result |-> IF ok THEN BoolStr(is_locked)
                            ELSE IF fail_safe_mode THEN "True" ELSE "raised"]
    /\ UNCHANGED <<ctl_vars, is_running, mon_vars, sd_vars, act_vars, now,
                   api_pc, fail_safe_mode, scan_vars, env_vars>>

NextApi ==
    \/ \E t \in Slots : TimerStart(t)
    \/ \E t \in Slots : TimerElapse(t)
    \/ \E t \in Slots : TimerCancelled(t)
    \/ \E t \in Slots : TimerFire(t)
    \/ \E t \in Slots, ok \in BOOLEAN : TimerCallReturn(t, ok)
    \/ \E value \in BOOLEAN : SetSwitch(value)
    \/ Tick
    \/ ApiUnlockDoor
    \/ ApiLockDoor
    \/ \E ok \in BOOLEAN : ApiCallReturn(ok)
    \/ \E ok \in BOOLEAN : GetDoorState(ok)

\* the controller objects driven by direct callers of their public
\* operations, with the timer tasks these create
SpecApi == Init /\ [][NextApi]_vars

\* ------------------------------------------- the detector's operations
\* start_monitoring() is called (awaited or wrapped in a task) by a caller
\* of the detector: the coroutine of the next unused loop exists
ApiStartMonitoring(l) ==
    /\ loops[l].pc = "idle"
    /\ \A k \in Loops : k < l => loops[k].pc # "idle"
    /\ CanRun(<<"api">>)
    /\ loops' = [loops EXCEPT ![l].pc = "created"]
    /\ UNCHANGED <<ctl_vars, is_running, is_scanning, sd_vars, act_vars, now>>
    /\ UNCHANGED <<api_vars, scan_vars, env_vars>>

\* AirTagDetector.stop_monitoring
ApiStopMonitoring ==
    /\ is_scanning
    /\ CanRun(<<"api">>)
    /\ is_scanning' = FALSE
    /\ UNCHANGED <<ctl_vars, is_running, loops, sd_vars, act_vars, now>>
    /\ UNCHANGED <<api_vars, scan_vars, env_vars>>

NextMonitor ==
    \/ \E l \in Loops : ApiStartMonitoring(l)
    \/ ApiStopMonitoring
    \/ \E l \in Loops : StartMonitoring(l)
    \/ \E l \in Loops, res \in ScanResults : ScanComplete(l, res)
    \/ \E l \in Loops : MonCallReturn(l, TRUE)
    \/ \E l \in Loops : WaitComplete(l)
    \/ \E t \in Slots : TimerStart(t)
    \/ \E t \in Slots : TimerCancelled(t)

\* the detector driven by callers of start_monitoring / stop_monitoring,
\* with on_proximity_change as its observer, an actuator that accepts every
\* call and an auto-lock timeout longer than the run
SpecMonitor == Init /\ [][NextMonitor]_vars

\* ------------------------------------------------------------ classifier
\* AirTagDetector.APPLE_COMPANY_ID (0x004C)
APPLE_COMPANY_ID == 76

\* variant: the 0x1E advertising type is not known
AIRTAG_DATA_TYPES_Only12 == {18}

\* AirTagDetector.AIRTAG_DATA_TYPES (0x12, 0x1E)
AIRTAG_DATA_TYPES == {18, 30}

\* a string is the sequence of its characters
\* AirTagDetector.AIRTAG_SERVICE_UUIDS ("FD6F", "FDAB")
AIRTAG_SERVICE_UUIDS == {<<"F", "D", "6", "F">>, <<"F", "D", "A", "B">>}

\* str.upper() on one character of a UUID string
UpperChar(c) ==
    CASE c = "a" -> "A" [] c = "b" -> "B" [] c = "c" -> "C"
      [] c = "d" -> "D" [] c = "e" -> "E" [] c = "f" -> "F"
      [] OTHER -> c

\* str(uuid).upper()
Upper(str) == [i \in DOMAIN str |-> UpperChar(str[i])]

\* --- the advertisements the radio delivers

\* manufacturer_data is a dict company id -> payload bytes
EmptyDict == [c \in {} |-> <<>>]
ManufacturerData ==
    {EmptyDict, [c \in {6} |-> <<18, 25>>]}
    \cup {[c \in {APPLE_COMPANY_ID} |-> b] :
             b \in {<<>>, <<18>>, <<18, 25>>, <<30, 0>>, <<7, 25>>}}

\* service_uuids: none, a tag-family identifier in lower and in upper case,
\* and the 128-bit form of FD6F
ServiceUuids ==
    {{}, {<<"f", "d", "6", "f">>}, {<<"F", "D", "A", "B">>},
     {<<"0", "0", "0", "0", "f", "d", "6", "f", "-", "0", "0", "0", "0", "-",
        "1", "0", "0", "0", "-", "8", "0", "0", "0", "-",
        "0", "0", "8", "0", "5", "f", "9", "b", "3", "4", "f", "b">>}}

\* rssi: at the calibration distance, nearer, and the "no reading" value
Rssis == {-59, -50, 0}

Samples == [address : Addresses, manufacturer_data : ManufacturerData,
            service_uuids : ServiceUuids, rssi : Rssis]

\* variant: data of any manufacturer passes the gate
_is_apple_device_AnyVendor(advertisement_data) ==
    DOMAIN advertisement_data.manufacturer_data # {}

\* AirTagDetector._is_apple_device
_is_apple_device(advertisement_data) ==
    IF DOMAIN advertisement_data.manufacturer_data = {}
    THEN FALSE
    ELSE APPLE_COMPANY_ID \in DOMAIN advertisement_data.manufacturer_data

\* AirTagDetector._has_airtag_advertising_data
_has_airtag_advertising_data(advertisement_data) ==
    LET md == advertisement_data.manufacturer_data
    IN  IF DOMAIN md = {} THEN FALSE
        ELSE IF APPLE_COMPANY_ID \notin DOMAIN md THEN FALSE
        ELSE IF Len(md[APPLE_COMPANY_ID]) < 2 THEN FALSE
        ELSE md[APPLE_COMPANY_ID][1] \in AIRTAG_DATA_TYPES

\* is_any_airtag, the service UUID test
HasAirtagServiceUuid(advertisement_data) ==
    /\ advertisement_data.service_uuids # {}
    /\ {Upper(u) : u \in advertisement_data.service_uuids}
           \cap AIRTAG_SERVICE_UUIDS # {}

\* variant: a registered address is not accepted on its own
is_any_airtag_NoFallback(known, advertisement_data) ==
    IF ~_is_apple_device(advertisement_data)
    THEN [ret |-> FALSE, known |-> known]
    ELSE IF HasAirtagServiceUuid(advertisement_data)
            \/ _has_airtag_advertising_data(advertisement_data)
    THEN [ret |-> TRUE, known |-> known \cup {advertisement_data.address}]
    ELSE [ret |-> FALSE, known |-> known]

\* variant: the address of every sample that passes the vendor gate is
\* registered
is_any_airtag_RegistersAll(known, advertisement_data) ==
    IF ~_is_apple_device(advertisement_data)
    THEN [ret |-> FALSE, known |-> known]
    ELSE IF HasAirtagServiceUuid(advertisement_data)
            \/ _has_airtag_advertising_data(advertisement_data)
            \/ advertisement_data.address \in known
    THEN [ret |-> TRUE, known |-> known \cup {advertisement_data.address}]
    ELSE [ret |-> FALSE, known |-> known \cup {advertisement_data.address}]

\* AirTagDetector.is_any_airtag: the value returned and the registry
\* (known_airtag_addresses) it leaves
is_any_airtag(known, advertisement_data) ==
    IF ~_is_apple_device(advertisement_data)
    THEN [ret |-> FALSE, known |-> known]
    ELSE IF HasAirtagServiceUuid(advertisement_data)
    THEN [ret |-> TRUE, known |-> known \cup {advertisement_data.address}]
    ELSE IF _has_airtag_advertising_data(advertisement_data)
    THEN [ret |-> TRUE, known |-> known \cup {advertisement_data.address}]
    ELSE IF advertisement_data.address \in known
    THEN [ret |-> TRUE, known |-> known]
    ELSE [ret |-> FALSE, known |-> known]

\* -------------------------------------------------------------- distance
\* Config.RSSI_AT_CALIBRATION_DISTANCE
rssi_at_1m == -59

\* Config.PATH_LOSS_EXPONENT (2.0)
path_loss_exponent == 2

\* 3.28084 * 10 ** (j / 20) for j = 0 .. 19 in units of 1/10^7 foot,
\* rounded down: the distance in feet at k = rssi_at_1m - rssi = j
FeetPow10 == <<32808400, 36811630, 41303328, 46343096, 51997809, 58342502,
               65461364, 73448858, 82410974, 92466634, 103749270, 116408595,
               130612592, 146549739, 164431512, 184495191, 207007009,
               232265684, 260606384, 292405172>>

\* the j whose entry of FeetPow10 has a remainder of a half or more
RoundsUp == {3, 4, 7, 8, 9, 11, 12, 13, 17, 18, 19}

\* 10 ** (k / (10 n)) * 3.28084 rounded to the nearest 1/100000 foot:
\* 10 ** (k / (10 n)) = 10 ** q * 10 ** (j / (10 n)) with k = q * 10 n + j
\* (exact for -4 <= q <= 2, range of RssiRange; below 1/200000 foot it is 0)
PathLossFeet(k) ==
    LET q == k \div (10 * path_loss_exponent)
        j == k % (10 * path_loss_exponent)
    IN  IF q < -4 THEN 0
        ELSE IF q >= 2
        THEN (FeetPow10[j + 1] + (IF j \in RoundsUp THEN 1 ELSE 0)) * 10 ^ (q - 2)
        ELSE (FeetPow10[j + 1] + (10 ^ (2 - q)) \div 2) \div (10 ^ (2 - q))

\* variant: the sign of the exponent is inverted
rssi_to_distance_feet_Inverted(rssi) ==
    IF rssi = 0 THEN Inf
    ELSE IF rssi - rssi_at_1m >= 60 THEN Inf - 1
    ELSE PathLossFeet(rssi - rssi_at_1m)

\* variant: the distance is left in meters
rssi_to_distance_feet_Meters(rssi) ==
    IF rssi = 0 THEN Inf
    ELSE LET x == PathLossFeet(rssi_at_1m - rssi)
         IN  (x \div 328084) * 100000 + ((x % 328084) * 1000) \div 3281

\* AirTagDetector.rssi_to_distance_feet, in units of 1/100000 foot
rssi_to_distance_feet(rssi) ==
    IF rssi = 0 THEN Inf
    ELSE PathLossFeet(rssi_at_1m - rssi)

\* ------------------------------------------------------------ scan window
\* device_found, the detection callback of scan_for_airtag: one advertisement
\* is classified and, if it is a tag, compared with the closest so far
DeviceFound(advertisement_data) ==
    LET c == is_any_airtag(known_airtag_addresses, advertisement_data)
        distance_feet == rssi_to_distance_feet(advertisement_data.rssi)
        closer == c.ret /\ distance_feet < scan.closest_distance
    IN  /\ scan.st = "open"
        /\ Len(scan.seen) < MaxBatch
        /\ known_airtag_addresses' = c.known
        /\ accepted' = IF c.ret THEN accepted \cup {advertisement_data.address}
                                ELSE accepted
        /\ scan' = [scan EXCEPT
              !.seen = Append(@, [m |-> c.ret, rssi |-> advertisement_data.rssi]),
              !.last = <<advertisement_data>>,
              !.closest_airtag = IF closer THEN Len(scan.seen) + 1 ELSE @,
              !.closest_distance = IF closer THEN distance_feet ELSE @]
        /\ UNCHANGED <<ctl_vars, is_running, mon_vars, sd_vars, act_vars, now,
                       api_vars, env_vars>>

\* what start_monitoring makes of a scan result: is_within_proximity of the
\* distance, FAR for None
IsClose(result) == result # None /\ is_within_proximity(result[2])

\* the scan window ends: scanner.stop() returns and scan_for_airtag returns
\* (closest_airtag, closest_distance), or None
ScanStop ==
    LET result == IF scan.closest_airtag # 0
                  THEN <<scan.closest_airtag, scan.closest_distance>>
                  ELSE None
    IN  /\ scan.st = "open"
        /\ scan' = [scan EXCEPT !.st = "returned", !.result = result,
                                !.is_close = IsClose(result)]
        /\ UNCHANGED <<ctl_vars, is_running, mon_vars, sd_vars, act_vars, now,
                       api_vars, known_airtag_addresses, accepted,
                   env_vars>>

\* the scanner raises (start, sleep or stop): scan_for_airtag returns None
ScanError ==
    /\ scan.st = "open"
    /\ scan' = [scan EXCEPT !.st = "returned", !.result = None,
                            !.raised = TRUE, !.is_close = IsClose(None)]
    /\ UNCHANGED <<ctl_vars, is_running, mon_vars, sd_vars, act_vars, now,
                   api_vars, known_airtag_addresses, accepted,
                   env_vars>>

\* the next call of scan_for_airtag: new locals, the registry is kept
ScanStart ==
    /\ scan.st = "returned"
    /\ scan' = NewScan
    /\ UNCHANGED <<ctl_vars, is_running, mon_vars, sd_vars, act_vars, now,
                   api_vars, known_airtag_addresses, accepted,
                   env_vars>>

NextScan ==
    \/ \E advertisement_data \in Samples : DeviceFound(advertisement_data)
    \/ ScanStop
    \/ ScanError
    \/ ScanStart

\* the detector's scan windows over the advertisements of Samples
SpecScan == Init /\ [][NextScan]_vars

\* ---------------------------------------------------------------- startup
\* the settings a deployment can give (environment variables)
Configs == [PROXIMITY_THRESHOLD_FEET : {-100, 0, proximity_threshold_feet},
            SCAN_INTERVAL_SECONDS : {-1, 0, 2},
            HOMEKIT_API_URL : {"", "http://hub.local"},
            HOMEKIT_BRIDGE_PIN : {"", "123-45-678"}]

\* variant: the scan interval is not examined
validate_NoInterval(cfg) ==
    {"PROXIMITY_THRESHOLD_FEET must be positive" : x \in
        IF cfg.PROXIMITY_THRESHOLD_FEET <= 0 THEN {1} ELSE {}}
    \cup {"Either HOMEKIT_API_URL or HOMEKIT_BRIDGE_PIN must be set" : x \in
        IF cfg.HOMEKIT_API_URL = "" /\ cfg.HOMEKIT_BRIDGE_PIN = ""
        THEN {1} ELSE {}}

\* Config.validate: the error messages
validate(cfg) ==
    {"PROXIMITY_THRESHOLD_FEET must be positive" : x \in
        IF cfg.PROXIMITY_THRESHOLD_FEET <= 0 THEN {1} ELSE {}}
    \cup {"SCAN_INTERVAL_SECONDS must be positive" : x \in
        IF cfg.SCAN_INTERVAL_SECONDS <= 0 THEN {1} ELSE {}}
    \cup {"Either HOMEKIT_API_URL or HOMEKIT_BRIDGE_PIN must be set" : x \in
        IF cfg.HOMEKIT_API_URL = "" /\ cfg.HOMEKIT_BRIDGE_PIN = ""
        THEN {1} ELSE {}}

\* the process before initialize(): no collaborator exists yet
InitStartup ==
    /\ door_locked = TRUE
    /\ last_unlock_time = 0
    /\ auto_lock_task = 0
    /\ is_running = FALSE
    /\ tasks = [t \in Slots |-> FreeTask]
    /\ is_scanning = FALSE
    /\ loops = [l \in Loops |-> [pc |-> "idle", last |-> "None",
                                 reported |-> "None", is_close |-> "None",
                                 fired |-> 0, scan_raised |-> FALSE,
                                 cb_raised |-> FALSE, cb_raised_before |-> FALSE]]
    /\ sd_pc = "idle"
    /\ is_locked = TRUE
    /\ driver_stopped = FALSE
    /\ sd_log = <<>>
    /\ now = 1
    /\ last_call = NoCall
    /\ lock_calls = 0
    /\ lock_failed = FALSE
    /\ last_op = NoOp
    /\ api_pc = "idle"
    /\ query = NoQuery
    /\ fail_safe_mode \in BOOLEAN
    /\ known_airtag_addresses = {}
    /\ scan = NewScan
    /\ accepted = {}
    /\ config \in Configs
    /\ startup = [pc |-> "start", error |-> "none"]
    /\ dist = NoDist

\* initialize(): Config.validate(); `if config_errors: raise ValueError`
InitializeValidate ==
    /\ startup.pc = "start"
    /\ startup' = IF validate(config) # {}
                  THEN [pc |-> "failed", error |-> "ValueError"]
                  ELSE [pc |-> "validated", error |-> "none"]
    /\ UNCHANGED <<ctl_vars, is_running, mon_vars, sd_vars, act_vars, now,
                   api_vars, scan_vars, config, dist>>

\* HomeKitController() and its initialize(): the bridge is set up, or the
\* API connection test raises
InitializeController(ok) ==
    /\ startup.pc = "validated"
    /\ startup' = IF ok THEN [pc |-> "controller", error |-> "none"]
                        ELSE [pc |-> "failed", error |-> "controller"]
    /\ UNCHANGED <<ctl_vars, is_running, mon_vars, sd_vars, act_vars, now,
                   api_vars, scan_vars, config, dist>>

\* `await self.homekit_controller.set_door_locked(True)`: the call returns,
\* or raises and initialize() ends with its error
InitializeLock(ok) ==
    /\ startup.pc = "controller"
    /\ SetDoorLocked(<<"init">>, TRUE, ok)
    /\ startup' = IF ok THEN [pc |-> "locked", error |-> "none"]
                        ELSE [pc |-> "failed", error |-> "actuator"]
    /\ UNCHANGED <<ctl_vars, is_running, mon_vars, sd_vars, lock_calls, last_op,
                   now, api_vars, scan_vars, config, dist>>

\* `AirTagDetector(airtag_identifier=Config.AIRTAG_IDENTIFIER, ...)`: Config
\* has no attribute AIRTAG_IDENTIFIER, the expression raises AttributeError
\* and initialize() ends before a detector exists
InitializeDetector ==
    /\ startup.pc = "locked"
    /\ startup' = [pc |-> "failed", error |-> "AttributeError"]
    /\ UNCHANGED <<ctl_vars, is_running, mon_vars, sd_vars, act_vars, now,
                   api_vars, scan_vars, config, dist>>

NextStartup ==
    \/ InitializeValidate
    \/ \E ok \in BOOLEAN : InitializeController(ok)
    \/ \E ok \in BOOLEAN : InitializeLock(ok)
    \/ InitializeDetector
    \/ \E value \in BOOLEAN : SetSwitch(value)

\* DoggyDoorApp.initialize() over the settings of Configs
SpecStartup == InitStartup /\ [][NextStartup]_vars

\* ------------------------------------------------- distance evaluations
\* rssi_to_distance_feet is applied to two readings (once in a run: the
\* function keeps no state between calls)
EvaluateDistance(r1, r2) ==
    /\ dist.n = 0
    /\ dist' = [n |-> 1, r1 |-> r1, d1 |-> rssi_to_distance_feet(r1),
                         r2 |-> r2, d2 |-> rssi_to_distance_feet(r2)]
    /\ UNCHANGED <<ctl_vars, is_running, mon_vars, sd_vars, act_vars, now,
                   api_vars, scan_vars, config, startup>>

\* the readings: -MaxRssiLoss .. MaxRssiGain dBm
RssiRange == (0 - MaxRssiLoss)..MaxRssiGain

NextDistance == \E r1 \in RssiRange, r2 \in RssiRange : EvaluateDistance(r1, r2)

\* the distance estimator over the readings of RssiRange
SpecDistance == Init /\ [][NextDistance]_vars

\* ------------------------------------------------- running monitor, fair
\* The application between run() and shutdown(): the monitoring task and
\* the timer tasks under the event loop's scheduling.  A task that is ready
\* runs (weak fairness of every step of the monitor and of the timers, the
\* sleeps included); an actuator call that is made again and again
\* eventually succeeds (strong fairness of the successful return).
NextLive ==
    \/ Run
    \/ \E l \in Loops : StartMonitoring(l)
    \/ \E l \in Loops, res \in ScanResults : ScanComplete(l, res)
    \/ \E l \in Loops : ScanRaises(l)
    \/ \E l \in Loops, ok \in BOOLEAN : MonCallReturn(l, ok)
    \/ \E l \in Loops : WaitComplete(l)
    \/ \E t \in Slots : TimerStart(t)
    \/ \E t \in Slots : TimerElapse(t)
    \/ \E t \in Slots : TimerCancelled(t)
    \/ \E t \in Slots : TimerFire(t)
    \/ \E t \in Slots, ok \in BOOLEAN : TimerCallReturn(t, ok)
    \/ \E value \in BOOLEAN : SetSwitch(value)
    \/ Tick

MonitorStep ==
    \/ Run
    \/ \E l \in Loops : StartMonitoring(l)
    \/ \E l \in Loops, res \in ScanResults : ScanComplete(l, res)
    \/ \E l \in Loops : ScanRaises(l)
    \/ \E l \in Loops, ok \in BOOLEAN : MonCallReturn(l, ok)
    \/ \E l \in Loops : WaitComplete(l)

TimerStep(t) ==
    \/ TimerStart(t)
    \/ TimerElapse(t)
    \/ TimerCancelled(t)
    \/ TimerFire(t)
    \/ \E ok \in BOOLEAN : TimerCallReturn(t, ok)

Fairness ==
    /\ WF_vars(MonitorStep)
    /\ SF_vars(\E l \in Loops : MonCallReturn(l, TRUE))
    /\ \A t \in Slots : WF_vars(TimerStep(t))
    /\ \A t \in Slots : SF_vars(TimerCallReturn(t, TRUE))

SpecLive == Init /\ [][NextLive]_vars /\ Fairness

\* ================================================================ claims
\* steps in which an actuator call returns to its caller
MonUnlockReturned(l) == loops[l].pc = "unlocking" /\ loops'[l].pc # "unlocking"
MonLockReturned(l) == loops[l].pc = "locking" /\ loops'[l].pc # "locking"
TimerLockReturned(t) == tasks[t].st = "locking" /\ tasks'[t].st # "locking"
TimerLockIssued(t) == tasks[t].st # "locking" /\ tasks'[t].st = "locking"

\* C1: when the actuator raises on the unlock call of unlock_door, the
\* controller was and stays LOCKED, last_unlock_time keeps its value, and no
\* timer task is created or pending.
C1_FailedUnlockKeepsLocked ==
    [][\A l \in Loops :
        (MonUnlockReturned(l) /\ ~last_call'.ok) =>
            /\ door_locked /\ door_locked'
            /\ last_unlock_time' = last_unlock_time
            /\ tasks' = tasks
            /\ auto_lock_task' = auto_lock_task
            /\ PendingTimers' = {}]_vars

\* a failed unlock has just returned, a timestamp of an earlier unlock is
\* still recorded
C1_Witness ==
    \E l \in Loops :
        /\ loops[l].pc = "wait"
        /\ last_call = [by |-> <<"mon", l>>, locked |-> FALSE, ok |-> FALSE]
        /\ door_locked
        /\ last_unlock_time \notin {0, now}
        /\ PendingTimers = {}

\* C2: from a successful unlock until a lock call is issued or shutdown
\* begins, the timer of that unlock stays armed; and when it fires with no
\* lock call issued before it in the episode and the actuator accepts, the
\* controller becomes LOCKED, that call is the one lock call of the episode,
\* and no timer remains.
C2_TimerRelocksOnce ==
    /\ []((~door_locked /\ lock_calls = 0 /\ is_running) =>
            /\ auto_lock_task # 0
            /\ tasks[auto_lock_task].st \in {"created", "sleeping", "ready", "locking"}
            /\ ~tasks[auto_lock_task].cancel)
    /\ [][\A t \in Slots :
            (TimerLockReturned(t) /\ last_call'.ok /\ lock_calls = 0) =>
                /\ last_call' = [by |-> <<"timer", t>>, locked |-> TRUE, ok |-> TRUE]
                /\ door_locked'
                /\ is_locked'
                /\ lock_calls' = 1
                /\ tasks'[t].st = "free"
                /\ auto_lock_task' = 0
                /\ PendingTimers' = {}]_vars

\* the timer has locked the door with the only lock call of the episode
C2_Witness ==
    /\ door_locked
    /\ is_running
    /\ last_call.by[1] = "timer"
    /\ last_call.ok
    /\ lock_calls = 1
    /\ last_unlock_time # 0

\* C3: a successful lock_door from the observer leaves no pending timer;
\* a timer task issues its lock call only if it is the current, uncancelled
\* timer, its sleep has elapsed and the controller is UNLOCKED -- so a
\* cancelled timer whose timeout elapses makes no actuator call.
C3_LockCancelsTimer ==
    /\ [][\A l \in Loops :
            (MonLockReturned(l) /\ last_call'.ok) =>
                /\ door_locked'
                /\ auto_lock_task' = 0
                /\ PendingTimers' = {}]_vars
    /\ [][\A t \in Slots :
            TimerLockIssued(t) =>
                /\ tasks[t].st = "ready"
                /\ ~tasks[t].cancel
                /\ auto_lock_task = t
                /\ ~door_locked]_vars
    /\ [][\A t \in Slots :
            (tasks[t].cancel /\ tasks'[t] # tasks[t]) =>
                /\ tasks'[t].st \in {"free", "done"}
                /\ UNCHANGED <<door_locked, act_vars>>]_vars

\* the observer has locked the door; the timer's timeout had elapsed but its
\* cancellation was requested before it resumed
C3_Witness ==
    \E t \in Slots :
        /\ tasks[t].st = "ready"
        /\ tasks[t].cancel
        /\ door_locked
        /\ last_call.by[1] = "mon"
        /\ last_call.locked
        /\ last_call.ok

\* C4: at most one auto-relock timer is pending in every reachable state.
C4_AtMostOnePendingTimer == Cardinality(PendingTimers) <= 1

\* a new timer is pending while the cancelled timer of the previous unlock
\* has not yet finished
C4_Witness ==
    /\ Cardinality(PendingTimers) = 1
    /\ \E t \in Slots : tasks[t].cancel /\ tasks[t].st \in {"sleeping", "ready"}

\* C5: at most one actuator set call is in flight in every reachable state.
C5_ActuatorCallsSerialized == Cardinality(InFlight) <= 1

\* the timer's lock call is in flight while the monitor has a scan window
\* open
C5_Witness ==
    \E t \in Slots, l \in Loops :
        /\ tasks[t].st = "locking"
        /\ loops[l].pc = "scan"
        /\ InFlight = {<<"timer", t>>}

\* C6: when shutdown() completes and its lock call, if one was issued, was
\* accepted by the actuator, door_locked is True (LOCKED).
C6_ShutdownForcesLocked ==
    [][(sd_pc # "done" /\ sd_pc' = "done"
            /\ \A i \in DOMAIN sd_log' : sd_log'[i] # "lock_failed")
        => door_locked']_vars

\* the sequences of steps a complete shutdown() may perform
ShutdownSequences ==
    { <<"stop_monitor", "cancel_timer", "release">>,
      <<"stop_monitor", "cancel_timer", "lock_call", "lock_ok", "release">>,
      <<"stop_monitor", "cancel_timer", "lock_call", "lock_failed", "release">> }

IsPrefix(a, b) == Len(a) <= Len(b) /\ SubSeq(b, 1, Len(a)) = a

InLog(x) == \E i \in DOMAIN sd_log : sd_log[i] = x

\* C7: shutdown() stops the monitor, then cancels the timer, then issues a
\* lock call exactly if the controller is UNLOCKED, then releases the
\* actuator; a failed lock call does not end shutdown: the release follows.
C7_ShutdownOrder ==
    /\ \E full \in ShutdownSequences : IsPrefix(sd_log, full)
    /\ sd_pc = "done" => sd_log \in ShutdownSequences
    /\ driver_stopped <=> InLog("release")
    /\ (InLog("stop_monitor") /\ sd_pc # "done") => ~is_scanning
    /\ (InLog("cancel_timer") /\ sd_pc # "done") => PendingTimers = {}
    /\ sd_pc = "release" => (InLog("lock_call") <=> ~door_locked)
    /\ sd_pc = "release" => ENABLED ShutdownRelease

\* shutdown from UNLOCKED whose lock call was refused, completed by the
\* release of the actuator
C7_Witness ==
    /\ sd_pc = "done"
    /\ driver_stopped
    /\ sd_log = <<"stop_monitor", "cancel_timer", "lock_call", "lock_failed", "release">>

\* C8: in every scan cycle the observer is invoked once if the cycle's
\* proximity boolean differs from the one last passed to the observer (in
\* the first cycle none has been passed), and not at all if it is equal.
C8_ObserverFiresOncePerTransition ==
    [][\A l \in Loops :
        (loops[l].pc = "scan" /\ loops'[l].pc # "scan") =>
            /\ loops'[l].is_close \in {"True", "False"}
            /\ loops'[l].fired =
                  (IF loops'[l].is_close # loops[l].reported THEN 1 ELSE 0)
            /\ loops'[l].reported = loops'[l].is_close]_vars

\* the first cycle after start reported FAR to the observer
C8_Witness ==
    \E l \in Loops :
        /\ loops[l].pc = "wait"
        /\ loops[l].fired = 1
        /\ loops[l].reported = "False"
        /\ last_call = NoCall

\* C9: an observer invocation with CLOSE while LOCKED issues the unlock call,
\* with FAR while UNLOCKED the lock call; with CLOSE while UNLOCKED or FAR
\* while LOCKED it issues no call and changes neither the controller state
\* nor the timers.
C9_ObserverMapping ==
    /\ [][\A l \in Loops :
            (loops[l].pc = "scan" /\ loops'[l].pc # "scan" /\ loops'[l].fired = 1) =>
                LET close == loops'[l].is_close = "True"
                IN  /\ (close /\ door_locked) => loops'[l].pc = "unlocking"
                    /\ (~close /\ ~door_locked) => loops'[l].pc = "locking"
                    /\ (close <=> ~door_locked) =>
                          /\ loops'[l].pc = "wait"
                          /\ InFlight' = InFlight
                          /\ UNCHANGED <<ctl_vars, act_vars>>]_vars
    /\ [][\A l \in Loops :
            /\ MonUnlockReturned(l) =>
                  (last_call'.by = <<"mon", l>> /\ ~last_call'.locked)
            /\ MonLockReturned(l) =>
                  (last_call'.by = <<"mon", l>> /\ last_call'.locked)]_vars

\* CLOSE was reported while the controller was still UNLOCKED after a
\* refused lock call: nothing was called
C9_Witness ==
    \E l \in Loops :
        /\ loops[l].pc = "wait"
        /\ loops[l].fired = 1
        /\ loops[l].is_close = "True"
        /\ ~door_locked
        /\ last_call.locked
        /\ ~last_call.ok

\* C10: when the actuator raises on the lock call of lock_door, door_locked
\* was and stays False and no other timer task is touched: a pending timer
\* stays pending, auto_lock_task keeps its value.
C10_FailedLockChangesNothing ==
    [][/\ \A l \in Loops :
            (MonLockReturned(l) /\ ~last_call'.ok) =>
                /\ ~door_locked /\ ~door_locked'
                /\ tasks' = tasks
                /\ auto_lock_task' = auto_lock_task
       /\ \A t \in Slots :
            (TimerLockReturned(t) /\ ~last_call'.ok) =>
                /\ ~door_locked /\ ~door_locked'
                /\ auto_lock_task' = auto_lock_task
                /\ \A u \in Slots \ {t} : tasks'[u] = tasks[u]]_vars

\* the observer's lock call was refused while the timer is pending
C10_Witness ==
    \E l \in Loops :
        /\ last_call = [by |-> <<"mon", l>>, locked |-> TRUE, ok |-> FALSE]
        /\ ~door_locked
        /\ auto_lock_task # 0
        /\ Pending(auto_lock_task)

\* C11: when the actuator call of unlock_door or lock_door raises, the
\* operation ends by raising to its caller.
C11_FailureSurfaced ==
    [][/\ \A l \in Loops :
            ((MonUnlockReturned(l) \/ MonLockReturned(l)) /\ ~last_call'.ok)
                => last_op'.raised
       /\ \A t \in Slots :
            (TimerLockReturned(t) /\ ~last_call'.ok) => last_op'.raised]_vars

\* steps of a direct caller
ApiCalled(pc) == api_pc = "idle" /\ api_pc' = pc
ApiReturned(pc) == api_pc = pc /\ api_pc' = "idle"

\* C12: unlock_door called while UNLOCKED and lock_door called while LOCKED
\* issue no actuator call and leave door_locked, last_unlock_time,
\* auto_lock_task and the timer tasks unchanged.
C12_AlreadyInStateNoOp ==
    [][/\ ApiCalled("unlocking") => door_locked
       /\ ApiCalled("locking") => ~door_locked
       /\ (ApiReturned("unlocking") /\ ~door_locked) => UNCHANGED ctl_vars
       /\ (ApiReturned("locking") /\ door_locked) => UNCHANGED ctl_vars]_vars

\* C13: get_door_state returns the state held by the actuator when the read
\* succeeds; when it raises, LOCKED in fail-safe mode and the error
\* otherwise; the controller state, the timers and the actuator are
\* unchanged.
C13_QueryState ==
    [][query'.seq # query.seq =>
        /\ query'.result =
              (IF query'.ok THEN (IF is_locked THEN "True" ELSE "False")
               ELSE IF fail_safe_mode THEN "True" ELSE "raised")
        /\ UNCHANGED <<ctl_vars, act_vars, mon_vars, sd_vars>>]_vars

\* fail-safe mode: the unlocked actuator could not be read and LOCKED was
\* returned
C13_Witness ==
    /\ fail_safe_mode
    /\ ~query.ok
    /\ query.result = "True"
    /\ ~is_locked
    /\ ~door_locked

\* ---------------------------------------------------- classifier claims
\* a step in which device_found handles one more advertisement
Delivered == Len(scan'.seen) = Len(scan.seen) + 1
\* the advertisement handled last in this window and what is_any_airtag
\* returned for it
LastSample == scan.last[1]
LastVerdict == scan.seen[Len(scan.seen)].m

\* the sample carries manufacturer data under the vendor code 0x004C
PassesGate(s) == 76 \in DOMAIN s.manufacturer_data
\* one of its service identifiers is FD6F or FDAB, in any letter case
MatchingServiceId(s) ==
    \E u \in s.service_uuids :
        Upper(u) \in {<<"F", "D", "6", "F">>, <<"F", "D", "A", "B">>}
\* the leading byte of its vendor payload is 0x12 or 0x1E
LeadingByteKnown(s) ==
    /\ PassesGate(s)
    /\ Len(s.manufacturer_data[76]) >= 1
    /\ s.manufacturer_data[76][1] \in {18, 30}

\* C14: a sample without manufacturer data under the vendor code 0x004C is
\* rejected, whatever its service identifiers and even if its address is in
\* the registry, and the reject leaves the registry as it was.
C14_GateRejects ==
    [][(Delivered /\ ~PassesGate(LastSample'))
          => /\ ~LastVerdict'
             /\ known_airtag_addresses' = known_airtag_addresses]_vars

C14_Witness ==
    /\ scan.last # <<>>
    /\ ~PassesGate(LastSample)
    /\ MatchingServiceId(LastSample)
    /\ LastSample.address \in known_airtag_addresses
    /\ ~LastVerdict

\* C15: a sample that passes the gate and has a matching service identifier
\* is accepted, also from an address never seen; every later sample from an
\* accepted address that passes the gate is accepted; a sample from a
\* never-accepted address with neither a matching service identifier nor a
\* known leading payload byte is rejected.
C15_ServiceIdAndRecency ==
    [][(Delivered /\ PassesGate(LastSample'))
          => /\ MatchingServiceId(LastSample') => LastVerdict'
             /\ LastSample'.address \in accepted => LastVerdict'
             /\ (/\ LastSample'.address \notin accepted
                 /\ ~MatchingServiceId(LastSample')
                 /\ ~LeadingByteKnown(LastSample')) => ~LastVerdict']_vars

C15_Witness ==
    /\ scan.last # <<>>
    /\ PassesGate(LastSample)
    /\ ~MatchingServiceId(LastSample)
    /\ ~LeadingByteKnown(LastSample)
    /\ LastVerdict
    /\ Len(scan.seen) = 2
    /\ ~scan.seen[1].m

\* C16 as stated: a sample that passes the gate and whose vendor payload is
\* not empty and starts with 0x12 or 0x1E is accepted and its address
\* registered.
C16_LeadingByteAccepted ==
    [][(Delivered /\ LeadingByteKnown(LastSample'))
          => /\ LastVerdict'
             /\ LastSample'.address \in known_airtag_addresses']_vars

\* C16 amended: a sample that passes the gate and whose vendor payload has
\* at least two bytes and starts with 0x12 or 0x1E is accepted and its
\* address registered, regardless of service identifiers.
C16_LeadingByteAcceptedTwoBytes ==
    [][(/\ Delivered
        /\ LeadingByteKnown(LastSample')
        /\ Len(LastSample'.manufacturer_data[76]) >= 2)
          => /\ LastVerdict'
             /\ LastSample'.address \in known_airtag_addresses']_vars

C16_Witness ==
    /\ Len(scan.seen) = 1
    /\ PassesGate(LastSample)
    /\ LastSample.manufacturer_data[76] = <<30, 0>>
    /\ LastSample.service_uuids = {}
    /\ LastVerdict
    /\ known_airtag_addresses = {LastSample.address}
    /\ accepted = {LastSample.address}

\* C17: when a scan window has returned without an error, the result is
\* absent iff no sample of the window was classified as a match; otherwise
\* it is the matching sample of minimum distance, the earliest of equals,
\* with that distance (+infinity for RSSI 0).
C17_EvaluateMinimum ==
    (scan.st = "returned" /\ ~scan.raised) =>
        LET M == {i \in DOMAIN scan.seen : scan.seen[i].m}
            d(i) == rssi_to_distance_feet(scan.seen[i].rssi)
        IN  IF M = {} THEN scan.result = None
            ELSE /\ scan.result # None
                 /\ scan.result[1] \in M
                 /\ \A j \in M : \/ d(j) > d(scan.result[1])
                                 \/ d(j) = d(scan.result[1]) /\ j >= scan.result[1]
                 /\ scan.result[2] = d(scan.result[1])

\* C18: the proximity boolean of a scan cycle without error is CLOSE exactly
\* when some matching sample has a distance <= the threshold (the boundary
\* included), FAR otherwise and when nothing matches; with the configured
\* parameters RSSI -59 is 3.28 ft and FAR, RSSI -50 is 1.16 ft and CLOSE.
C18_ProximityBoolean ==
    /\ is_within_proximity(proximity_threshold_feet)
    /\ ~is_within_proximity(proximity_threshold_feet + 1)
    /\ (scan.st = "returned" /\ ~scan.raised) =>
        LET M == {i \in DOMAIN scan.seen : scan.seen[i].m}
        IN  /\ scan.is_close <=>
                 \E i \in M : rssi_to_distance_feet(scan.seen[i].rssi)
                                  <= proximity_threshold_feet
            /\ (\E i \in M : scan.seen[i].rssi = -50) => scan.is_close
            /\ (\A i \in M : scan.seen[i].rssi \in {-59, 0}) => ~scan.is_close
            /\ \A i \in M : scan.seen[i].rssi = -59 =>
                                rssi_to_distance_feet(-59) = 328084
            /\ \A i \in M : scan.seen[i].rssi = -50 =>
                                rssi_to_distance_feet(-50) = 116409

C18_Witness ==
    /\ scan.st = "returned"
    /\ ~scan.raised
    /\ Len(scan.seen) = 2
    /\ scan.seen[1].m /\ scan.seen[1].rssi = -59
    /\ scan.seen[2].m /\ scan.seen[2].rssi = -50
    /\ scan.result = <<2, 116409>>
    /\ scan.is_close

\* ------------------------------------------------ monitor error handling
\* a step in which loop l finishes the evaluation of a scan window
CycleEnds(l) == loops[l].pc = "scan" /\ loops'[l].pc # "scan"
\* a step in which loop l leaves its interval sleep
SleepEnds(l) == loops[l].pc = "wait" /\ loops'[l].pc # "wait"

\* C19: a scan window in which the scanner raises is evaluated as "no
\* match": FAR, reported to the observer exactly when the last proximity
\* state was not already FAR; the loop does not end, and after the interval
\* sleep another scan is started while the monitor is SCANNING.
C19_ScanErrorIsNoMatch ==
    [][\A l \in Loops :
          /\ (CycleEnds(l) /\ loops'[l].scan_raised)
                => /\ loops'[l].is_close = "False"
                   /\ (loops'[l].fired = 1) <=> (loops[l].last # "False")
                   /\ loops'[l].fired = 1 => loops'[l].reported = "False"
                   /\ loops'[l].fired = 0 => loops'[l].reported = loops[l].reported
                   /\ loops'[l].pc = (IF loops'[l].fired = 1 /\ ~door_locked
                                      THEN "locking" ELSE "wait")
                   /\ is_scanning' = is_scanning
          /\ (SleepEnds(l) /\ loops[l].scan_raised /\ is_scanning)
                => loops'[l].pc = "scan"]_vars

C19_Witness ==
    /\ loops[1].pc = "scan"
    /\ loops[1].scan_raised
    /\ loops[1].fired = 1
    /\ loops[1].reported = "False"
    /\ door_locked
    /\ last_call.by = <<"mon", 1>>
    /\ last_call.locked
    /\ is_scanning

\* C20: when the observer raises on a transition the monitor stays SCANNING:
\* the cycle ends in the interval sleep with the new proximity recorded, the
\* controller untouched, and after the sleep another scan is started; later
\* cycles invoke the observer again.
C20_ObserverErrorCaught ==
    [][\A l \in Loops :
          /\ (CycleEnds(l) /\ loops'[l].cb_raised)
                => /\ loops'[l].pc = "wait"
                   /\ loops'[l].fired = 1
                   /\ loops'[l].last = loops'[l].is_close
                   /\ is_scanning' = is_scanning
                   /\ UNCHANGED <<ctl_vars, act_vars>>
          /\ (SleepEnds(l) /\ loops[l].cb_raised /\ is_scanning)
                => loops'[l].pc = "scan"
          /\ (CycleEnds(l) /\ loops[l].cb_raised)
                => (loops'[l].fired = 1) <=> (loops'[l].is_close # loops[l].last)]_vars

C20_Witness ==
    /\ loops[1].cb_raised_before
    /\ ~loops[1].cb_raised
    /\ loops[1].fired = 1
    /\ loops[1].pc = "unlocking"
    /\ is_scanning

\* ------------------------------------------------- start / stop claims
\* a step in which the coroutine of loop l takes its first step
FirstStep(l) == loops[l].pc = "created" /\ loops'[l].pc # "created"
\* loop l is inside a cycle: in its scan window or in the observer
InCycle(l) == loops[l].pc \in {"scan", "unlocking", "locking"}

\* C21: start_monitoring() entered while the monitor is SCANNING returns at
\* once: it starts no scan loop, now or later, and leaves is_scanning, the
\* other loops' last reported proximity, the registry and the controller as
\* they were.
C21_StartWhileScanningNoOp ==
    [][\A l \in Loops :
          /\ (FirstStep(l) /\ is_scanning)
                => /\ loops'[l].pc = "returned"
                   /\ is_scanning'
                   /\ \A k \in Loops \ {l} : loops'[k] = loops[k]
                   /\ UNCHANGED <<ctl_vars, act_vars, scan_vars>>
          /\ loops[l].pc = "returned" => loops'[l] = loops[l]]_vars

C21_Witness ==
    /\ loops[2].pc = "returned"
    /\ loops[1].pc = "scan"
    /\ loops[1].reported = "True"
    /\ is_scanning

\* C22: at most one scan window or observer invocation of the monitor is in
\* progress at any time, for every sequence of start_monitoring() and
\* stop_monitoring() calls.
C22_CyclesNeverOverlap ==
    Cardinality({l \in Loops : InCycle(l)}) <= 1

\* C23: once stop_monitoring() has been called (by shutdown, the program's
\* only caller, with no start_monitoring() call after it) no loop begins a
\* scan window any more, and a loop that has ended its wait has exited with
\* is_scanning False.
C23_NoScanAfterStop ==
    [][\A l \in Loops :
          InLog("stop_monitor") =>
             /\ ~(loops[l].pc # "scan" /\ loops'[l].pc = "scan")
             /\ SleepEnds(l) => (loops'[l].pc = "exited" /\ ~is_scanning')]_vars

\* C24: in every reachable state in which no actuator call is in flight
\* and no lock call has failed, the controller's door_locked equals the
\* state last set on the actuator by the controller: when the last call
\* was accepted, the state that call set; also after shutdown.
C24_StateMatchesActuator ==
    (InFlight = {} /\ ~lock_failed /\ last_call.ok) =>
        door_locked = last_call.locked

\* C25: with a proximity threshold or scan interval that is not positive,
\* initialize() ends with ValueError at the validation: no actuator call
\* has been made, no controller or detector step taken, and the monitor is
\* neither created nor started.
C25_InvalidConfigFailsFirst ==
    (/\ \/ config.PROXIMITY_THRESHOLD_FEET <= 0
        \/ config.SCAN_INTERVAL_SECONDS <= 0
     /\ startup.pc # "start")
        => /\ startup = [pc |-> "failed", error |-> "ValueError"]
           /\ last_call = NoCall
           /\ is_locked
           /\ ~is_scanning
           /\ \A l \in Loops : loops[l].pc = "idle"

C25_Witness ==
    /\ config.PROXIMITY_THRESHOLD_FEET = proximity_threshold_feet
    /\ config.SCAN_INTERVAL_SECONDS = 0
    /\ config.HOMEKIT_BRIDGE_PIN # ""
    /\ startup = [pc |-> "failed", error |-> "ValueError"]

\* C26 as stated: over all integer RSSI values of the range, 0 included,
\* r1 < r2 implies distance(r2) <= distance(r1), and the distance of RSSI 0
\* is +infinity.
C26_Monotone ==
    dist.n = 1 =>
        /\ dist.r1 < dist.r2 => dist.d2 <= dist.d1
        /\ dist.r1 = 0 => dist.d1 = Inf

\* C26 amended: r1 < r2 implies distance(r2) <= distance(r1) whenever r2 is
\* not 0; the distance of RSSI 0 is +infinity, above the distance of every
\* other reading, weaker or stronger.
C26_MonotoneExceptZero ==
    dist.n = 1 =>
        /\ (dist.r1 < dist.r2 /\ dist.r2 # 0) => dist.d2 <= dist.d1
        /\ dist.r1 = 0 => dist.d1 = Inf
        /\ (dist.r1 = 0 /\ dist.r2 # 0) => dist.d2 < dist.d1

C26_Witness ==
    /\ dist.n = 1
    /\ dist.r1 = -60 /\ dist.d1 = 368116
    /\ dist.r2 = -59 /\ dist.d2 = 328084

\* C27: once shutdown() has begun, no unlock call is issued to the actuator
\* and no auto-lock timer task is created, also when a scan window that was
\* open at that moment ends with a CLOSE result afterwards.
C27_NoUnlockAfterShutdown ==
    [][sd_pc # "idle" =>
          /\ \A l \in Loops :
                ~(loops[l].pc # "unlocking" /\ loops'[l].pc = "unlocking")
          /\ \A t \in Slots :
                ~(tasks[t].st # "created" /\ tasks'[t].st = "created")]_vars

\* C28: with the monitor running under fair scheduling, every state in
\* which the controller is UNLOCKED is followed by a state in which it is
\* LOCKED, also when lock calls to the actuator fail finitely often.
C28_UnlockedLeadsToLocked == ~door_locked ~> door_locked

\* C29: before shutdown, in every state in which no actuator call of the
\* controller is in progress, an auto-lock timer is pending exactly when
\* the controller's lock state is UNLOCKED.
C29_TimerPendingIffUnlocked ==
    (sd_pc = "idle" /\ InFlight = {}) =>
        ((PendingTimers # {}) <=> ~door_locked)

\* C30: an unlock call is issued to the actuator only by the monitoring
\* cycle that reports a transition to CLOSE (the previously recorded
\* proximity was not CLOSE), and once an unlock call has been issued the
\* recorded proximity is CLOSE whether the call succeeds or fails; a cycle
\* that evaluates CLOSE while CLOSE is recorded issues no call, also with the
\* door locked again by the timer or after a failed unlock, and the record
\* leaves CLOSE only in a cycle that reports FAR.
UnlockIssued(l) == loops[l].pc # "unlocking" /\ loops'[l].pc = "unlocking"

C30_UnlockOnlyOnTransition ==
    [][\A l \in Loops :
          /\ UnlockIssued(l) =>
                /\ CycleEnds(l)
                /\ loops[l].last # "True"
                /\ loops'[l].is_close = "True"
                /\ loops'[l].fired = 1
                /\ loops'[l].reported = "True"
          /\ (loops[l].pc = "unlocking" /\ loops'[l].pc # "unlocking") =>
                loops'[l].last = "True"
          /\ (CycleEnds(l) /\ loops[l].last = "True"
                           /\ loops'[l].is_close = "True") =>
                /\ ~UnlockIssued(l)
                /\ loops'[l].fired = 0
                /\ loops'[l].last = "True"
                /\ UNCHANGED <<act_vars, ctl_vars>>
          /\ (loops[l].last = "True" /\ loops'[l].last # "True") =>
                /\ loops'[l].fired = 1
                /\ loops'[l].reported = "False"]_vars

\* the monitor's unlock call has failed, the door is locked, and a later
\* cycle has evaluated CLOSE without reporting and without a new call
C30_Witness ==
    /\ is_running
    /\ door_locked
    /\ last_call = [by |-> <<"mon", 1>>, locked |-> FALSE, ok |-> FALSE]
    /\ InFlight = {}
    /\ loops[1].pc = "wait"
    /\ loops[1].is_close = "True"
    /\ loops[1].last = "True"
    /\ loops[1].fired = 0

\* C31: with a configuration that validate() accepts, a controller that
\* initializes and an actuator that accepts the lock call, initialize()
\* does not end with an error: startup fails only on an invalid
\* configuration or on a controller or actuator that refuses.
C31_StartupCompletes ==
    startup.pc = "failed" =>
        \/ validate(config) # {}
        \/ startup.error \in {"controller", "actuator"}

\* the sample is accepted on its content: it passes the gate and has a
\* matching service identifier, or a vendor payload of at least two bytes
\* with a known leading byte
ContentMatch(s) ==
    /\ PassesGate(s)
    /\ \/ MatchingServiceId(s)
       \/ LeadingByteKnown(s) /\ Len(s.manufacturer_data[76]) >= 2

\* C32: the registry of recent tag addresses only grows and only through
\* content matches: no step removes an address; a classified sample adds
\* its address exactly when it is accepted on its service identifier or its
\* payload pattern; a reject and an accept on a registered address alone
\* leave the registry as it was; every registered address has been accepted.
C32_RegistryGrowsByContent ==
    [][/\ known_airtag_addresses \subseteq known_airtag_addresses'
       /\ known_airtag_addresses' \subseteq accepted'
       /\ ~Delivered => known_airtag_addresses' = known_airtag_addresses
       /\ Delivered =>
             /\ known_airtag_addresses' =
                   IF ContentMatch(LastSample')
                   THEN known_airtag_addresses \cup {LastSample'.address}
                   ELSE known_airtag_addresses
             /\ ContentMatch(LastSample') => LastVerdict'
             /\ (LastVerdict' /\ ~ContentMatch(LastSample')) =>
                   LastSample'.address \in known_airtag_addresses]_vars

\* both addresses are registered, and the sample handled last was accepted
\* on its registered address alone, in a later window than the one that
\* registered it
C32_Witness ==
    /\ known_airtag_addresses = Addresses
    /\ Len(scan.seen) = 1
    /\ LastVerdict
    /\ ~ContentMatch(LastSample)
    /\ LastSample.address \in known_airtag_addresses

====
